---- MODULE Spec2Model ----
(***************************************************************************)
(* Model of the A2J case-analysis pipeline: scraping (scraper.py), the     *)
(* per-case LLM loop (main.py, llm_processor.py) and the Excel archive     *)
(* merge (excel_utils.py).                                                 *)
(*                                                                         *)
(* Text is modelled as a sequence of characters.  Titles, citations and    *)
(* unique names are sequences of tokens: Blank is one blank, YearTok is a  *)
(* bracketed year such as "[2020]", any other token is a visible           *)
(* character.  Answers are atoms (TLA+ strings), evidence lines are        *)
(* sequences of tokens.                                                    *)
(* A backend response is a sequence of tokens too: the two markers, TAB,   *)
(* NL, blanks and atoms.                                                   *)
(* The archive folder is a function from calendar dates to files; a file   *)
(* is a sequence of data rows (the header row is implicit) and a row is a  *)
(* sequence of cells carrying value, hyperlink, fill and comment.          *)
(*                                                                         *)
(* Spec is the pipeline, run after run.  SpecLLM is one call of            *)
(* process_case followed request by request: the two Gemini prompts, the   *)
(* OpenAI extraction and the comparison, each with its retries.            *)
(* SpecLLMFair adds that a started backend call returns.  SpecClean       *)
(* applies clean_evidence_line to a line and to its own result, SpecScrape *)
(* follows one call of scrape_search page by page.                         *)
(***************************************************************************)
EXTENDS Integers, Sequences, FiniteSets, TLC

\* ---------------------------------------------------------------- bounds
MaxDay == 3
MaxRuns == 3

\* ------------------------------------------------------ program constants
NumAnswerCols == 13
NumIdentityCols == 4
CheckpointEvery == 5
StopYear == 2015
GptFieldCount == 4

PyNone == "<None>"
Blank == " "
TAB == "\t"
NL == "\n"
YearTok == "[2020]"

\* the characters str.strip() and the regex class \s take for white space
Whitespace == {Blank, TAB, NL, "nbsp"}

\* self.csv_header has 17 entries
HeaderLen == NumIdentityCols + NumAnswerCols

\* self.csv_header: the names of the columns of the sheet, in order
csv_header ==
  <<"Case Name", "Unique Name", "Citation", "Date of Judgment",
    "Length of marriage till IJ (include separation period)",
    "Length of marriage (exclude separation period)",
    "Number of children", "Wife's income (monthly)",
    "Husband's income (monthly)", "Single or dual income marriage",
    "Direct Contribution (Wife)", "Indirect Contribution (Wife)",
    "Average Ratio (Wife)", "Final Ratio", "Adjustments",
    "Adjustment Reason", "Custody Type">>

\* ------------------------------------------------------------ text helpers
RECURSIVE LStrip(_)
LStrip(s) == IF s # <<>> /\ Head(s) \in Whitespace THEN LStrip(Tail(s)) ELSE s

RECURSIVE RStrip(_)
RStrip(s) ==
  IF s # <<>> /\ s[Len(s)] \in Whitespace THEN RStrip(SubSeq(s, 1, Len(s) - 1)) ELSE s

\* str.strip()
Strip(s) == RStrip(LStrip(s))

\* re.sub(r'\[\d{4}\]\s*', '', citation): drop every bracketed year and the
\* blanks that follow it
RECURSIVE CleanCitation(_)
CleanCitation(s) ==
  IF s = <<>> THEN <<>>
  ELSE IF Head(s) = YearTok THEN CleanCitation(LStrip(Tail(s)))
  ELSE <<Head(s)>> \o CleanCitation(Tail(s))

Range(s) == {s[i] : i \in 1..Len(s)}

Min(a, b) == IF a < b THEN a ELSE b

\* ------------------------------------------------------------- the inputs
\* One entry of a search-result page: the case link (title, href), the
\* citation span, the decision-date span (its year) and the judgment text
\* found behind the link.
Entry(t, cit, yr, doc) ==
  [title |-> t, citation |-> cit, date |-> yr, href |-> "u", doc |-> doc]

EA == Entry(<<"A">>, <<YearTok, Blank, "1">>, 2024, "docA")
EB == Entry(<<"B">>, <<YearTok, Blank, "2">>, 2024, "docB")
EC == Entry(<<"C">>, <<YearTok, Blank, "3">>, 2023, "docLong")
ED == Entry(<<"D">>, <<YearTok, Blank, "4">>, 2023, "docA")
EE == Entry(<<"E">>, <<YearTok, Blank, "5">>, 2022, "docB")
EF == Entry(<<"F">>, <<YearTok, Blank, "6">>, 2022, "docA")
\* an entry whose citation span is empty: its unique name ends in a blank
EN == Entry(<<"N">>, <<>>, 2021, "docShort")
EOld == Entry(<<"O">>, <<YearTok, Blank, "9">>, 2015, "docA")

\* A site is the two searches of scrape_all, each a sequence of pages.
Site(s1, s2) == [search1 |-> s1, search2 |-> s2]

Sites ==
  { Site(<< <<EA, EB, EC>>, <<ED, EE, EF>> >>, << <<EB, EN>> >>),
    Site(<< <<EN>>, <<EN, EOld, EA>> >>, << <<EC>> >>) }

\* ---------------------------------------------------------------- scraper
\* Case.__init__
Case(t, u, url, cit, d, det) ==
  [title |-> t, unique_title |-> u, url |-> url, citation |-> cit,
   date |-> d, details |-> det]

\* unique_title = f"{title} {clean_citation}"
UniqueTitle(t, cit) == t \o <<Blank>> \o CleanCitation(cit)

\* the stop test on the decision date: date[-4:] is a year <= 2015
IsOldDate(d) == d # 0 /\ d <= StopYear

UniqueTitles(cs) == {cs[i].unique_title : i \in 1..Len(cs)}

\* extract_cases: the loop over the entries of one page.  Stops at the first
\* entry that is old or already in the latest Excel file, skips an entry
\* found by the first search.
RECURSIVE extract_cases(_, _, _)
extract_cases(page, existing, first_pass) ==
  IF page = <<>> THEN <<>>
  ELSE LET e == Head(page)
           unique_title == UniqueTitle(e.title, e.citation)
       IN IF IsOldDate(e.date) THEN <<>>
          ELSE IF existing # {} /\ unique_title \in existing THEN <<>>
          ELSE IF first_pass # <<>> /\ unique_title \in UniqueTitles(first_pass)
            THEN extract_cases(Tail(page), existing, first_pass)
          ELSE <<Case(e.title, unique_title, e.href, e.citation, e.date, PyNone)>>
               \o extract_cases(Tail(page), existing, first_pass)

\* CaseScraper.process_cases: fetch the judgment text of every case
FetchDetails(cs, page) ==
  [i \in 1..Len(cs) |->
     LET e == CHOOSE e \in Range(page) :
                UniqueTitle(e.title, e.citation) = cs[i].unique_title
     IN [cs[i] EXCEPT !.details = e.doc]]

\* scrape_search: page after page until a page yields no case
RECURSIVE scrape_search(_, _, _)
scrape_search(pages, existing, first_pass) ==
  IF pages = <<>> THEN <<>>
  ELSE LET cases == extract_cases(Head(pages), existing, first_pass)
       IN IF cases = <<>> THEN <<>>
          ELSE FetchDetails(cases, Head(pages))
               \o scrape_search(Tail(pages), existing, first_pass)

\* scrape_all: the two searches, the second one skipping the first one's cases
scrape_all(site, existing) ==
  LET cases_search1 == scrape_search(site.search1, existing, <<>>)
      cases_search2 == scrape_search(site.search2, existing, cases_search1)
  IN cases_search1 \o cases_search2

\* ---------------------------------------------------------- LLM processor
NA == "NA"

\* the two literal markers of a Gemini response
AnswersMarker == "|||ANSWERS|||"
EvidenceMarker == "|||EVIDENCE|||"

\* while len(xs) < n: xs.append(fill)
RECURSIVE PadTo(_, _, _)
PadTo(xs, n, fill) == IF Len(xs) < n THEN PadTo(Append(xs, fill), n, fill) ELSE xs

Rep(n, v) == [i \in 1..n |-> v]

\* the text of a token sequence as one string
RECURSIVE Join(_)
Join(s) == IF s = <<>> THEN "" ELSE Head(s) \o Join(Tail(s))

\* sep.join(values), as tokens
RECURSIVE JoinWith(_, _)
JoinWith(vs, sep) ==
  IF vs = <<>> THEN <<>>
  ELSE IF Len(vs) = 1 THEN <<Head(vs)>>
  ELSE <<Head(vs), sep>> \o JoinWith(Tail(vs), sep)

\* "\t".join(values)
JoinTab(vs) == JoinWith(vs, TAB)

\* s.find(pat) + 1 for a token sequence pat: the first position where pat
\* occurs in s, 0 when it does not occur
Find(s, pat) ==
  LET hits == {i \in 1..(Len(s) - Len(pat) + 1) :
                 SubSeq(s, i, i + Len(pat) - 1) = pat}
  IN IF hits = {} THEN 0 ELSE CHOOSE i \in hits : \A j \in hits : i <= j

\* s.split(pat, 1)
SplitOnce(s, pat) ==
  LET i == Find(s, pat)
  IN IF i = 0 THEN <<s>>
     ELSE <<SubSeq(s, 1, i - 1), SubSeq(s, i + Len(pat), Len(s))>>

\* s.split(pat)
RECURSIVE SplitAll(_, _)
SplitAll(s, pat) ==
  LET parts == SplitOnce(s, pat)
  IN IF Len(parts) = 1 THEN parts ELSE <<parts[1]>> \o SplitAll(parts[2], pat)

\* the cap on the number of prompt tokens, the safety margin, the cap on the
\* completion tokens and the least completion budget of extract_gemini_output
token_limit == 2000000
SafetyMargin == 100
CompletionCap == 500000
MinCompletion == 1000
\* max_retries of extract_gemini_output and of extract_openai_output
GeminiMaxRetries == 5
\* an OpenAI loop with the ceiling of the Gemini loop
OpenAIMaxRetries_AsGemini == GeminiMaxRetries
OpenAIMaxRetries == 3
\* the numbers of answers asked for by the two Gemini prompts
Prompt1Fields == 6
Prompt2Fields == 7
\* the number of "Error" answers process_gemini_output gives when it fails
ParseErrorFields == 6

ExpectedFields(idx) == IF idx = 1 THEN Prompt1Fields ELSE Prompt2Fields

\* what extract_gemini_output returns without a response
InputTooLarge == <<"Error: Input too large.">>
GeminiExhausted == <<"Error: Failed after 5 attempts.">>
\* what extract_openai_output returns without a response
OpenAIFatal == <<"Error">>
OpenAIExhausted == <<"Error: Failed after 3 attempts.">>

\* max_completion_tokens < 1000 in extract_gemini_output
OverBudget(input_tokens) ==
  Min(token_limit - input_tokens - SafetyMargin, CompletionCap) < MinCompletion

\* s.rsplit(pat, 1): the split at the last occurrence of pat
SplitLast(s, pat) ==
  LET hits == {i \in 1..(Len(s) - Len(pat) + 1) :
                 SubSeq(s, i, i + Len(pat) - 1) = pat}
  IN IF hits = {} THEN <<s>>
     ELSE LET i == CHOOSE i \in hits : \A j \in hits : j <= i
          IN <<SubSeq(s, 1, i - 1), SubSeq(s, i + Len(pat), Len(s))>>

\* a parser that cuts the answers from the evidence at the last evidence
\* marker instead of the first one
process_gemini_output_LastMarker(output) ==
  IF Find(output, <<AnswersMarker>>) # 0 /\ Find(output, <<EvidenceMarker>>) # 0
  THEN LET answer_and_evidence == SplitOnce(output, <<AnswersMarker>>)[2]
           parts == SplitLast(answer_and_evidence, <<EvidenceMarker>>)
       IN IF Len(parts) = 2
          THEN [answers |-> Strip(parts[1]), evidence |-> Strip(parts[2])]
          ELSE [answers |-> JoinTab(Rep(ParseErrorFields, "Error")),
                evidence |-> <<"Error processing output">>]
  ELSE LET parts == SplitOnce(output, <<NL, NL>>)
       IN [answers |-> Strip(parts[1]),
           evidence |-> IF Len(parts) > 1 THEN Strip(parts[2])
                        ELSE <<"No supporting text returned.">>]

\* process_gemini_output: the answer text and the evidence text of a response
process_gemini_output(output) ==
  IF Find(output, <<AnswersMarker>>) # 0 /\ Find(output, <<EvidenceMarker>>) # 0
  THEN LET answer_and_evidence == SplitOnce(output, <<AnswersMarker>>)[2]
           parts == SplitOnce(answer_and_evidence, <<EvidenceMarker>>)
       IN IF Len(parts) = 2
          THEN [answers |-> Strip(parts[1]), evidence |-> Strip(parts[2])]
          ELSE \* the unpacking of the split raises: the except branch
               [answers |-> JoinTab(Rep(ParseErrorFields, "Error")),
                evidence |-> <<"Error processing output">>]
  ELSE LET parts == SplitOnce(output, <<NL, NL>>)
       IN [answers |-> Strip(parts[1]),
           evidence |-> IF Len(parts) > 1 THEN Strip(parts[2])
                        ELSE <<"No supporting text returned.">>]

\* the tokens that re.sub(r'^\s*\d+\.\s*') takes for an enumeration prefix
Numbering == {"1.", "2.", "3.", "4.", "5.", "6.", "7."}
Quotes == {"'", "dquote"}

\* clean_evidence_line
clean_evidence_line(evidence_line) ==
  LET lead == LStrip(evidence_line)
      c1 == IF lead # <<>> /\ Head(lead) \in Numbering
            THEN LStrip(Tail(lead)) ELSE evidence_line
      c2 == [i \in 1..Len(c1) |-> IF c1[i] = "nbsp" THEN Blank ELSE c1[i]]
      c3 == IF c2 # <<>> /\ Head(c2) \in Quotes THEN Tail(c2) ELSE c2
      c4 == IF c3 # <<>> /\ c3[Len(c3)] \in Quotes
            THEN SubSeq(c3, 1, Len(c3) - 1) ELSE c3
  IN Strip(c4)

\* fields = answers.split("\t")
SplitFields(answers) ==
  LET parts == SplitAll(answers, <<TAB>>)
  IN [i \in 1..Len(parts) |-> Join(parts[i])]

\* [clean_evidence_line(line) for line in evidence.strip().split("\n")
\*  if line.strip()]
EvidenceLines(evidence) ==
  LET lines == SelectSeq(SplitAll(Strip(evidence), <<NL>>),
                         LAMBDA line : Strip(line) # <<>>)
  IN [i \in 1..Len(lines) |-> clean_evidence_line(lines[i])]

\* One round of the loop over the Gemini prompts in process_case: the fields
\* and the evidence lines of prompt idx.  raised: the extraction raised;
\* output: what extract_gemini_case_output returned otherwise.
PromptResult(idx, raised, output) ==
  LET parsed == IF raised
                THEN [answers |-> JoinTab(Rep(ExpectedFields(idx), NA)),
                      evidence |-> <<NA>>]
                ELSE process_gemini_output(output)
  IN [answers |-> SplitFields(parsed.answers),
      evidence |-> EvidenceLines(parsed.evidence)]

\* The responses of the backends to the judgment texts of the archive model.
\* A text the backends do not answer for ("docShort", the empty text of a
\* case loaded from a file) stands for a backend that fails at every attempt.
RawGemini(idx, details) ==
  CASE details = "docA" ->
         IF idx = 1
         THEN <<AnswersMarker, NL>>
              \o JoinTab(<<"10y", "9y", "2", "3000", "4000", "dual">>)
              \o <<NL, EvidenceMarker, NL,
                   "1.", Blank, "married", NL,
                   "2.", Blank, NA, NL,
                   "3.", Blank, "two", Blank, "children", NL,
                   "4.", Blank, "'", "'", "earned", "...", "x", "'", "'">>
         ELSE <<AnswersMarker, NL>>
              \o JoinTab(<<"60", "40", "50", "55", "plus 5", "reason", "joint">>)
              \o <<NL, EvidenceMarker, NL,
                   "1.", Blank, "a", "-", "b", NL, NL,
                   "2.", Blank, "Undisclosed", NL>>
    [] details = "docB" ->
         IF idx = 1
         THEN <<AnswersMarker>>
              \o JoinTab(<<"5y", NA, "0", "Undisclosed", "2000", "single">>)
              \o <<EvidenceMarker, "Not Discussed", NL, "dquote", "q", "dquote">>
         ELSE <<AnswersMarker, NL>>
              \o JoinTab(<<"30", "70", NA, "50", "0", NA, "sole">>)
              \o <<NL, EvidenceMarker>>
    [] details = "docLong" ->
         \* one tab too many in the first answer line
         IF idx = 1
         THEN <<AnswersMarker, NL>>
              \o JoinTab(<<"10y", "9y", "2", "3000", "4000", "dual", "extra">>)
              \o <<NL, EvidenceMarker, NL, "married">>
         ELSE <<AnswersMarker, NL>>
              \o JoinTab(<<"60", "40", "50", "55", "plus 5", "reason", "joint">>)
              \o <<NL, EvidenceMarker, NL, "r">>
    [] OTHER -> GeminiExhausted

\* the answers and the cleaned evidence lines of prompt idx for a text
GeminiParsed(idx, details) == PromptResult(idx, FALSE, Strip(RawGemini(idx, details)))

\* what extract_openai_output returns for a judgment text
GptOutput(details) ==
  CASE details = "docA" -> JoinTab(<<"dual", "50", "55", "plus 5">>)
    [] details = "docB" -> JoinTab(<<"dual", "NA", "45">>) \o <<NL>>
    [] details = "docLong" -> JoinTab(<<"dual", "50", "55", "plus 5", "", "more">>)
    [] OTHER -> <<>>

\* gpt_fields of process_case: the stripped output split on tabs, filled up
\* with "NA" to four fields and cut to four fields
GptFields(gpt_output) ==
  IF Strip(gpt_output) = <<>> THEN Rep(GptFieldCount, NA)
  ELSE SubSeq(PadTo(SplitFields(Strip(gpt_output)), GptFieldCount, NA),
              1, GptFieldCount)

\* a Python list of booleans as text
BoolText(b) == IF b THEN "True" ELSE "False"
ListText(bs) ==
  <<"[">> \o JoinWith([i \in 1..Len(bs) |-> BoolText(bs[i])], ",") \o <<"]">>

\* the literals of the model that are not lists of booleans
OtherLiterals == {<<"5">>, <<"None">>, <<"[", "1", "]">>}

\* ast.literal_eval(response): a list of booleans, another value, or an
\* exception.  The items of a list are separated by one "," token.
literal_eval(response) ==
  LET inner == SubSeq(response, 2, Len(response) - 1)
      isList ==
        /\ Len(response) >= 2
        /\ response[1] = "[" /\ response[Len(response)] = "]"
        /\ \/ inner = <<>>
           \/ /\ Len(inner) % 2 = 1
              /\ \A i \in 1..Len(inner) :
                   IF i % 2 = 1 THEN inner[i] \in {"True", "False"}
                   ELSE inner[i] = ","
      items == [k \in 1..((Len(inner) + 1) \div 2) |-> inner[2 * k - 1] = "True"]
  IN IF isList THEN [kind |-> "bools", items |-> items]
     ELSE IF response \in OtherLiterals THEN [kind |-> "other", items |-> <<>>]
     ELSE [kind |-> "raise", items |-> <<>>]

\* compare_llm_output after the call: the decoded response, or all TRUE
\* when decoding raises
DecodeCompare(output_1, response) ==
  LET v == literal_eval(response)
  IN IF v.kind = "raise"
     THEN [kind |-> "bools", items |-> Rep(Len(output_1), TRUE)]
     ELSE v

\* the answer of the comparison call for a judgment text
CompareOutput(details) ==
  CASE details = "docA" -> ListText(<<FALSE, FALSE, FALSE, FALSE>>)
    [] details = "docB" -> ListText(<<TRUE, FALSE, TRUE, FALSE>>)
    [] details = "docLong" -> ListText(<<FALSE, TRUE, FALSE, TRUE>>)
    [] OTHER -> GeminiExhausted

\* str.strip().lower() on the answers of the model
Lower(v) == IF v = NA THEN "na" ELSE v

\* four neighbouring answers taken for the comparison
field_indices_Neighbours == <<5, 6, 7, 8>>

\* field_indices = [5, 8, 9, 10]
field_indices == <<5, 8, 9, 10>>

\* gemini_fields of process_case
GeminiFields(all_fields) ==
  [k \in 1..Len(field_indices) |->
     IF field_indices[k] < Len(all_fields)
     THEN Lower(all_fields[field_indices[k] + 1]) ELSE "na"]

\* process_case: both Gemini prompts, padding, the GPT fields, the compared
\* Gemini fields and the differences
process_case(title, details) ==
  LET g1 == GeminiParsed(1, details)
      g2 == GeminiParsed(2, details)
      all_fields == PadTo(g1.answers \o g2.answers, NumAnswerCols, NA)
      all_evidence == g1.evidence \o g2.evidence
      gpt_fields == GptFields(GptOutput(details))
      gemini_fields == GeminiFields(all_fields)
  IN [all_fields |-> all_fields, all_evidence |-> all_evidence,
      gpt_fields |-> gpt_fields, gemini_fields |-> gemini_fields,
      differences |-> DecodeCompare(gpt_fields, Strip(CompareOutput(details))).items]

\* main.process_cases: results[case.unique_title] = process_case(...), a later
\* case with the same unique_title replacing an earlier one
process_cases(cs) ==
  [k \in UniqueTitles(cs) |->
     LET last == CHOOSE i \in 1..Len(cs) :
                   /\ cs[i].unique_title = k
                   /\ \A j \in (i + 1)..Len(cs) : cs[j].unique_title # k
     IN process_case(cs[last].title, cs[last].details)]

\* the unique_titles the backends were called for, in call order
BackendCalls(cs) == [i \in 1..Len(cs) |-> cs[i].unique_title]

\* ----------------------------------------------------------- Excel cells
NoLink == <<>>
NoComment == <<>>

Cell(v) == [value |-> v, hyperlink |-> NoLink, fill |-> FALSE, comment |-> NoComment]

\* replace every occurrence of the token sequence pat in s by rep (str.replace)
RECURSIVE ReplaceAll(_, _, _)
ReplaceAll(s, pat, rep) ==
  IF Len(s) < Len(pat) THEN s
  ELSE IF SubSeq(s, 1, Len(pat)) = pat
    THEN rep \o ReplaceAll(SubSeq(s, Len(pat) + 1, Len(s)), pat, rep)
  ELSE <<Head(s)>> \o ReplaceAll(Tail(s), pat, rep)

\* NFKC and the dash replacement, token by token
NormalizeTok(t) ==
  CASE t = "nbsp" -> Blank
    [] t = "ellipsis" -> "..."
    [] t \in {"endash", "emdash", "nbhyphen"} -> "-"
    [] OTHER -> t

\* urllib.parse.quote(text, safe='%'), token by token
QuoteTok(t) ==
  CASE t = Blank -> "%20"
    [] t = "'" -> "%27"
    [] t = "dquote" -> "%22"
    [] OTHER -> t

\* clean_and_encode_text
clean_and_encode_text(text) ==
  LET quoted == [i \in 1..Len(text) |-> QuoteTok(NormalizeTok(text[i]))]
      r1 == ReplaceAll(quoted, <<"%27", "%27", "...", "%27">>, <<"&text=">>)
      r2 == ReplaceAll(r1, <<"%22", "%22", "...", "%22">>, <<"&text=">>)
      r3 == ReplaceAll(r2, <<"%22", "...", "%22">>, <<"&text=">>)
      r4 == ReplaceAll(r3, <<"%27", "...", "%27">>, <<"&text=">>)
      r5 == ReplaceAll(r4, <<"...">>, <<"&text=">>)
  IN ReplaceAll(r5, <<"-">>, <<"%2D">>)

\* evidence lines that never get a hyperlink
NoLinkEvidence == {<<"Not Discussed">>, <<NA>>, <<"Undisclosed">>}

\* a map that takes the column numbers of the sheet as counted from 0
column_map_ZeroBased == <<11, 14, 15, 16>>

\* column_map = {0: 10, 1: 13, 2: 14, 3: 15}: comparison slot -> sheet column
column_map == <<10, 13, 14, 15>>

\* llm_results.get(case.unique_title, {}) and the .get defaults of its fields
EmptyResult ==
  [all_fields |-> <<>>, all_evidence |-> <<>>, gpt_fields |-> <<>>,
   gemini_fields |-> <<>>, differences |-> <<>>]

ResultFor(llm, case) ==
  IF case.unique_title \in DOMAIN llm THEN llm[case.unique_title] ELSE EmptyResult

\* The row written for a new case: the values, then the evidence hyperlinks
\* of the answer cells, then fill and comment of the mismatched cells.
NewRow(case, res) ==
  LET all_fields == PadTo(res.all_fields, NumAnswerCols, NA)
      all_evidence == res.all_evidence
      values == <<case.title, case.unique_title, case.citation, case.date>>
                \o all_fields
      Link(col) ==
        LET i == col - NumIdentityCols
        IN IF /\ col > NumIdentityCols
              /\ i <= Len(all_evidence)
              /\ all_evidence[i] \notin NoLinkEvidence
              /\ case.url # PyNone
           THEN <<case.url, "#:~:text=">> \o clean_and_encode_text(all_evidence[i])
           ELSE NoLink
      Slots(col) ==
        {k \in 1..Len(res.differences) :
           /\ res.differences[k]
           /\ k <= Len(column_map)
           /\ column_map[k] = col}
      Note(col) ==
        IF Slots(col) = {} THEN NoComment
        ELSE LET k == CHOOSE k \in Slots(col) : TRUE
             IN <<"Mismatch",
                  IF k <= Len(res.gpt_fields) THEN res.gpt_fields[k] ELSE NA,
                  IF k <= Len(res.gemini_fields) THEN res.gemini_fields[k] ELSE NA>>
  IN [col \in 1..Len(values) |->
        [value |-> values[col], hyperlink |-> Link(col),
         fill |-> Slots(col) # {}, comment |-> Note(col)]]

\* The copy of one row of the previous file: the first len(csv_header)
\* columns, with value, fill, hyperlink and comment.  Setting the cell style
\* to "Hyperlink" replaces the style copied just before, the fill included.
CopyRow(src) ==
  [col \in 1..Min(HeaderLen, Len(src)) |->
     [value |-> src[col].value,
      hyperlink |-> src[col].hyperlink,
      fill |-> IF src[col].hyperlink # NoLink THEN FALSE ELSE src[col].fill,
      comment |-> src[col].comment]]

CopyRows(rows) == [r \in 1..Len(rows) |-> CopyRow(rows[r])]

\* a load that reads the column before "Unique Name" (an index off by one)
load_existing_cases_WrongColumn(rows) ==
  {Strip(rows[r][1].value) : r \in {r \in 1..Len(rows) : rows[r][1].value # <<>>}}

\* load_existing_cases: the stripped values of the "Unique Name" column
load_existing_cases(rows) ==
  {Strip(rows[r][2].value) : r \in {r \in 1..Len(rows) : rows[r][2].value # <<>>}}

\* scraper.load_existing_cases: the same column read through pandas
scraper_load_existing_cases(rows) ==
  {Strip(rows[r][2].value) : r \in 1..Len(rows)}

\* load_cases_from_excel: one Case per row, without URL and without text
load_cases_from_excel(rows) ==
  [r \in 1..Len(rows) |->
     Case(rows[r][1].value, rows[r][2].value, "", rows[r][3].value,
          rows[r][4].value, "")]

\* ------------------------------------------------------------------ state
VARIABLES
  day,            \* the calendar date, datetime.now() of create_excel_with_headers
  files,          \* the archive folder: date -> file DD_MM_YYYY.xlsx
  mtimeOrder,     \* the dates of the files, least recently modified first
  runs,           \* number of runs of main() started so far
  pc,             \* where main() is: idle, llm, save, merge, done, crashed
  mode,           \* --all, --scrape or --process
  cases,          \* the cases of the run (main: cases)
  calls,          \* the unique_titles sent to the backends in this run
  llm_results,    \* main: llm_results
  wb,             \* the data rows of the workbook being built (ws)
  save_path,      \* the date that names the file of this run (0: none yet)
  latest_excel,   \* the date of the previous file found (0: none)
  existing_cases, \* process_and_save_cases: existing_cases
  source_ws,      \* the data rows of the previous file (source_ws)
  next_case,      \* position of the for loop over cases
  new_case_count, \* process_and_save_cases: new_case_count
  ret,            \* what save_to_excel returned: a date, "" or PyNone
  hPrevLatest,    \* history: the rows of the most recent file when the merge began
  hWriter,        \* history: date -> the run that last wrote that file
  hProducer,      \* history: date -> the cases of the run that completed that file
  hCheckpointed,  \* history: a checkpoint of this run reached the disk
  hSaveFailed,    \* history: a checkpoint save or the final save of this run failed
  hCrash,         \* history: the last run, when it died after a checkpoint
  hRerun,         \* history: this run repeats the cases of the run in hCrash
  \* one call of LLMProcessor.process_case, request by request
  lpc,            \* where process_case is: idle, guard, call, parse, openai, decode, done
  req,            \* the request at hand: 1, 2 Gemini prompts, 3 OpenAI, 4 comparison
  case_details,   \* process_case: case_details
  attempt,        \* extract_gemini_output / extract_openai_output: attempt
  log,            \* history: the backend calls and sleeps of the latest request
  status,         \* history: request -> how its extraction ended
  output,         \* request -> what the extract function returned
  prompt_fields,  \* Gemini prompt -> fields of that prompt (process_case: fields)
  prompt_evidence,\* Gemini prompt -> evidence_lines of that prompt
  llm_all_fields,    \* process_case: all_fields
  llm_all_evidence,  \* process_case: all_evidence
  llm_gpt_fields,    \* process_case: gpt_fields
  llm_gemini_fields, \* process_case: gemini_fields
  llm_differences,   \* process_case: differences
  \* clean_evidence_line applied to one line, and to its own result
  evidence_line,  \* clean_evidence_line: evidence_line
  cleaned,        \* history: the results of the applications so far
  \* one call of CaseScraper.scrape_search, page by page
  search_pages,   \* the result pages behind base_url
  search_rows,    \* the data rows of the latest Excel file
  search_first,   \* scrape_search: first_pass
  search_page,    \* scrape_search: page
  cases_all,      \* scrape_search: cases_all
  search_done,    \* scrape_search has returned cases_all
  hFetchedFrom    \* history: the page each case of cases_all was found on

mainVars ==
  <<day, files, mtimeOrder, runs, pc, mode, cases, calls, llm_results, wb,
    save_path, latest_excel, existing_cases, source_ws, next_case,
    new_case_count, ret, hPrevLatest, hWriter, hProducer, hCheckpointed,
    hSaveFailed, hCrash, hRerun>>

llmVars ==
  <<lpc, req, case_details, attempt, log, status, output, prompt_fields,
    prompt_evidence, llm_all_fields, llm_all_evidence, llm_gpt_fields,
    llm_gemini_fields, llm_differences>>

cleanVars == <<evidence_line, cleaned>>

scrapeVars ==
  <<search_pages, search_rows, search_first, search_page, cases_all,
    search_done, hFetchedFrom>>

vars == <<mainVars, llmVars, cleanVars, scrapeVars>>

diskVars == <<files, mtimeOrder, hWriter, hProducer>>
mergeVars ==
  <<wb, save_path, latest_excel, existing_cases, source_ws, next_case,
    new_case_count, hPrevLatest, hCheckpointed, hSaveFailed>>

Days == 1..MaxDay

\* A file: its data rows and its column widths (a new workbook has the
\* default widths).
NoFile == [exists |-> FALSE, rows |-> <<>>, widths |-> "default"]
File(rows, widths) == [exists |-> TRUE, rows |-> rows, widths |-> widths]

NoCrash == [valid |-> FALSE, cases |-> <<>>, prior |-> <<>>]
NoProducer == [complete |-> FALSE, cases |-> <<>>]

\* An Excel file outside the archive folder that --excel may name: six
\* cases with their four identity columns.
IdentityRow(e) ==
  <<Cell(e.title), Cell(UniqueTitle(e.title, e.citation)), Cell(e.citation),
    Cell(e.date)>>

ExternalRows ==
  <<IdentityRow(EA), IdentityRow(EB), IdentityRow(EC), IdentityRow(ED),
    IdentityRow(EE), IdentityRow(EF)>>

ExternalCases == load_cases_from_excel(ExternalRows)

Idle == pc \in {"idle", "done", "crashed"}

\* os.path.getmtime order: saving a file makes it the most recent one
Touch(order, d) == SelectSeq(order, LAMBDA x : x # d) \o <<d>>

\* find_latest_excel_file(exclude_path): the most recently modified file
\* that is not the excluded one; 0 when there is none
find_latest_excel_file(order, exclude_path) ==
  LET others == SelectSeq(order, LAMBDA x : x # exclude_path)
  IN IF others = <<>> THEN 0 ELSE others[Len(others)]

RowsOf(fs, d) == IF d = 0 THEN <<>> ELSE fs[d].rows

\* ----------------------------------------- process_case, request by request
\* The requests of one process_case call, in program order.
Requests == 1..4
GeminiPrompts == {1, 2}
OpenAIRequest == 3
CompareRequest == 4

\* The judgment texts process_case is called with: a text of ordinary size
\* and one as long as the token limit.
DetailTexts == {"docA", "docHuge"}

\* count_tokens of the text a request sends.  The judgment text "docHuge"
\* alone has token_limit tokens; every other text of the model is short and
\* counts as one token.  Requests 1 to 3 embed the judgment text, the
\* comparison prompt embeds the eight compared fields.
DocTokens(details) == IF details = "docHuge" THEN token_limit ELSE 1
InputTokens(r, details) ==
  IF r = CompareRequest THEN 1 ELSE 1 + DocTokens(details)

\* Responses the Gemini backend may give to an extraction prompt
\* (response.text): both markers, few or many fields, markers in the wrong
\* order, one marker, no marker with and without a blank line, white space
\* and empty fields at the ends of the answer text, two evidence markers.
GeminiResponses ==
  { RawGemini(1, "docA"),
    RawGemini(2, "docA"),
    RawGemini(1, "docLong"),
    <<AnswersMarker, NL, "a", TAB, "b", NL, EvidenceMarker, NL, "2.", Blank, "e">>,
    <<EvidenceMarker, NL, "e", NL, AnswersMarker, NL, "a", TAB, "b">>,
    <<AnswersMarker, NL, "a", TAB, "b">>,
    <<"a", TAB, "b", NL, NL, "1.", Blank, "e", NL>>,
    <<"a", TAB, "b">>,
    <<AnswersMarker, TAB, "a", TAB, TAB, NL, EvidenceMarker, "e", NL,
      EvidenceMarker, "f">> }

\* Responses of the OpenAI backend (response.output_text)
OpenAIResponses ==
  { GptOutput("docA"), GptOutput("docB"), GptOutput("docLong"), <<>> }

\* Responses of the Gemini backend to the comparison prompt
CompareResponses ==
  { ListText(<<FALSE, FALSE, FALSE, FALSE>>),
    ListText(<<TRUE, FALSE, TRUE, FALSE>>),
    ListText(<<FALSE, FALSE>>),
    ListText(<<FALSE, FALSE, FALSE, FALSE, TRUE>>),
    <<"5">>,
    <<"The", Blank, "lists", Blank, "agree">> }

NoDifferences == [kind |-> "none", items |-> <<>>]

InitLLM ==
  /\ lpc = "idle"
  /\ req = 1
  /\ case_details = ""
  /\ attempt = 0
  /\ log = <<>>
  /\ status = [r \in Requests |-> "none"]
  /\ output = [r \in Requests |-> <<>>]
  /\ prompt_fields = [i \in GeminiPrompts |-> <<>>]
  /\ prompt_evidence = [i \in GeminiPrompts |-> <<>>]
  /\ llm_all_fields = <<>>
  /\ llm_all_evidence = <<>>
  /\ llm_gpt_fields = <<>>
  /\ llm_gemini_fields = <<>>
  /\ llm_differences = NoDifferences

\* process_case is called for a case
LStart ==
  /\ lpc \in {"idle", "done"}
  /\ \E d \in DetailTexts : case_details' = d
  /\ lpc' = "guard"
  /\ req' = 1
  /\ attempt' = 0
  /\ log' = <<>>
  /\ status' = [r \in Requests |-> "none"]
  /\ output' = [r \in Requests |-> <<>>]
  /\ prompt_fields' = [i \in GeminiPrompts |-> <<>>]
  /\ prompt_evidence' = [i \in GeminiPrompts |-> <<>>]
  /\ llm_all_fields' = <<>>
  /\ llm_all_evidence' = <<>>
  /\ llm_gpt_fields' = <<>>
  /\ llm_gemini_fields' = <<>>
  /\ llm_differences' = NoDifferences
  /\ UNCHANGED <<mainVars, cleanVars, scrapeVars, cleanVars>>

\* where a Gemini request goes once extract_gemini_output has returned
AfterGemini(r) == IF r = CompareRequest THEN "decode" ELSE "parse"

\* extract_gemini_output up to the retry loop: count_tokens, which may raise
\* (the exception leaves extract_gemini_output), then the budget test
GeminiGuard ==
  /\ lpc = "guard"
  /\ \E raised \in BOOLEAN :
       IF raised
       THEN /\ status' = [status EXCEPT ![req] = "raised"]
            /\ IF req = CompareRequest
               THEN \* process_case: except around compare_llm_output
                    /\ llm_differences' =
                         [kind |-> "bools", items |-> Rep(GptFieldCount, FALSE)]
                    /\ lpc' = "done"
               ELSE /\ lpc' = "parse"
                    /\ UNCHANGED llm_differences
            /\ UNCHANGED <<output, attempt>>
       ELSE IF OverBudget(InputTokens(req, case_details))
       THEN /\ status' = [status EXCEPT ![req] = "budget"]
            /\ output' = [output EXCEPT ![req] = InputTooLarge]
            /\ lpc' = AfterGemini(req)
            /\ UNCHANGED <<attempt, llm_differences>>
       ELSE /\ attempt' = 0
            /\ lpc' = "call"
            /\ UNCHANGED <<status, output, llm_differences>>
  /\ log' = <<>>
  /\ UNCHANGED <<mainVars, cleanVars, scrapeVars, req, case_details, prompt_fields, prompt_evidence,
                 llm_all_fields, llm_all_evidence, llm_gpt_fields,
                 llm_gemini_fields>>

\* one round of the retry loop of extract_gemini_output: the call returns a
\* response, or raises and the loop sleeps and counts the attempt
GeminiCall ==
  /\ lpc = "call"
  /\ attempt < GeminiMaxRetries
  /\ \E ok \in BOOLEAN :
       IF ok
       THEN \E response \in (IF req = CompareRequest THEN CompareResponses
                             ELSE GeminiResponses) :
              /\ log' = Append(log, "call")
              /\ output' = [output EXCEPT ![req] = Strip(response)]
              /\ status' = [status EXCEPT ![req] = "ok"]
              /\ lpc' = AfterGemini(req)
              /\ UNCHANGED attempt
       ELSE /\ log' = log \o <<"call", "sleep">>
            /\ attempt' = attempt + 1
            /\ IF attempt + 1 < GeminiMaxRetries
               THEN UNCHANGED <<output, status, lpc>>
               ELSE /\ output' = [output EXCEPT ![req] = GeminiExhausted]
                    /\ status' = [status EXCEPT ![req] = "exhausted"]
                    /\ lpc' = AfterGemini(req)
  /\ UNCHANGED <<mainVars, cleanVars, scrapeVars, req, case_details, prompt_fields, prompt_evidence,
                 llm_all_fields, llm_all_evidence, llm_gpt_fields,
                 llm_gemini_fields, llm_differences>>

\* process_case: the rest of one round of the loop over the Gemini prompts,
\* and after the second round the padding of all_fields
GeminiParse ==
  /\ lpc = "parse"
  /\ LET res == PromptResult(req, status[req] = "raised", output[req])
         fields == llm_all_fields \o res.answers
     IN /\ prompt_fields' = [prompt_fields EXCEPT ![req] = res.answers]
        /\ prompt_evidence' = [prompt_evidence EXCEPT ![req] = res.evidence]
        /\ llm_all_evidence' = llm_all_evidence \o res.evidence
        /\ llm_all_fields' = IF req = 1 THEN fields
                             ELSE PadTo(fields, NumAnswerCols, NA)
  /\ req' = req + 1
  /\ lpc' = IF req = 1 THEN "guard" ELSE "openai"
  /\ attempt' = 0
  /\ log' = <<>>
  /\ UNCHANGED <<mainVars, cleanVars, scrapeVars, case_details, status, output, llm_gpt_fields,
                 llm_gemini_fields, llm_differences>>

\* process_case once extract_openai_output has returned: gpt_fields and
\* gemini_fields, then on to the comparison
AfterOpenAI(gpt_output, st) ==
  /\ output' = [output EXCEPT ![req] = gpt_output]
  /\ status' = [status EXCEPT ![req] = st]
  /\ llm_gpt_fields' = GptFields(gpt_output)
  /\ llm_gemini_fields' = GeminiFields(llm_all_fields)
  /\ req' = CompareRequest
  /\ lpc' = "guard"

\* what extract_openai_output does with a failed call: the failures it
\* retries after a sleep
IsRetried_AnyFailure(failure) == TRUE

IsRetried(failure) == failure = "rate limit"

\* one round of the retry loop of extract_openai_output
OpenAICall ==
  /\ lpc = "openai"
  /\ attempt < OpenAIMaxRetries
  /\ \E outcome \in {"ok", "rate limit", "other"} :
       IF outcome = "ok"
       THEN \E response \in OpenAIResponses :
              /\ log' = Append(log, "call")
              /\ AfterOpenAI(Strip(response), "ok")
              /\ UNCHANGED attempt
       ELSE IF IsRetried(outcome)
       THEN /\ log' = log \o <<"call:" \o outcome, "sleep">>
            /\ attempt' = attempt + 1
            /\ IF attempt + 1 < OpenAIMaxRetries
               THEN UNCHANGED <<output, status, llm_gpt_fields,
                                llm_gemini_fields, req, lpc>>
               ELSE AfterOpenAI(OpenAIExhausted, "exhausted")
       ELSE /\ log' = Append(log, "call:" \o outcome)
            /\ AfterOpenAI(OpenAIFatal, "fatal")
            /\ UNCHANGED attempt
  /\ UNCHANGED <<mainVars, cleanVars, scrapeVars, case_details, prompt_fields, prompt_evidence,
                 llm_all_fields, llm_all_evidence, llm_differences>>

\* compare_llm_output once extract_gemini_output has returned
CompareDecode ==
  /\ lpc = "decode"
  /\ llm_differences' = DecodeCompare(llm_gpt_fields, output[req])
  /\ lpc' = "done"
  /\ UNCHANGED <<mainVars, cleanVars, scrapeVars, req, case_details, attempt, log, status, output,
                 prompt_fields, prompt_evidence, llm_all_fields,
                 llm_all_evidence, llm_gpt_fields, llm_gemini_fields>>

NextLLM ==
  \/ LStart
  \/ GeminiGuard
  \/ GeminiCall
  \/ GeminiParse
  \/ OpenAICall
  \/ CompareDecode

\* ------------------------------------ clean_evidence_line, applied twice
MaxLineLen == 3

\* the tokens of an evidence line: an enumeration prefix, white space, a
\* quote, a visible character
LineTokens == {"1.", Blank, "nbsp", "'", "x"}

RECURSIVE SeqsUpTo(_, _)
SeqsUpTo(S, n) ==
  IF n = 0 THEN {<<>>}
  ELSE LET shorter == SeqsUpTo(S, n - 1)
       IN shorter \cup {Append(q, t) : q \in {q \in shorter : Len(q) = n - 1}, t \in S}

EvidenceInputs == SeqsUpTo(LineTokens, MaxLineLen)

\* between two uses no line is at hand
InitClean ==
  /\ evidence_line = <<>>
  /\ cleaned = <<>>

\* a line is handed to clean_evidence_line
InitLine ==
  /\ evidence_line \in EvidenceInputs
  /\ cleaned = <<>>

\* clean_evidence_line is applied to the line, then to its own result
CleanLine ==
  /\ Len(cleaned) < 2
  /\ cleaned' = Append(cleaned,
                       clean_evidence_line(IF cleaned = <<>> THEN evidence_line
                                           ELSE cleaned[Len(cleaned)]))
  /\ UNCHANGED <<mainVars, llmVars, scrapeVars, evidence_line>>

NextClean == CleanLine

\* --------------------------------------------- scrape_search, page by page
MaxPages == 2

\* the result pages a search may show
SearchPageSet ==
  {<<EA, EB>>, <<EB, EA>>, <<EA, EN>>, <<EA, EOld>>, <<EOld>>, <<EC>>,
   <<EN, EC>>, <<EB>>}

SearchInputs == SeqsUpTo(SearchPageSet, MaxPages) \ {<<>>}

\* the latest Excel file: none or empty, or one with a row of an earlier run
SearchFiles == {<<>>, <<IdentityRow(EB)>>, <<IdentityRow(EN)>>}

\* the cases of a first search
SearchFirstPasses ==
  {<<>>, <<Case(EA.title, UniqueTitle(EA.title, EA.citation), EA.href,
                EA.citation, EA.date, EA.doc)>>}

\* no search is running
InitScrape ==
  /\ search_pages = <<>>
  /\ search_rows = <<>>
  /\ search_first = <<>>
  /\ search_page = 1
  /\ cases_all = <<>>
  /\ search_done = FALSE
  /\ hFetchedFrom = <<>>

\* scrape_search is called for a search
InitSearch ==
  /\ search_pages \in SearchInputs
  /\ search_rows \in SearchFiles
  /\ search_first \in SearchFirstPasses
  /\ search_page = 1
  /\ cases_all = <<>>
  /\ search_done = FALSE
  /\ hFetchedFrom = <<>>

\* one round of the loop over the pages: extract_cases, then either the
\* break or process_cases and cases_all.extend
ScrapePage ==
  /\ ~search_done
  /\ search_page <= Len(search_pages)
  /\ LET found == extract_cases(search_pages[search_page],
                                scraper_load_existing_cases(search_rows),
                                search_first)
     IN IF found = <<>>
        THEN /\ search_done' = TRUE
             /\ UNCHANGED <<search_page, cases_all, hFetchedFrom>>
        ELSE /\ cases_all' = cases_all \o FetchDetails(found, search_pages[search_page])
             /\ hFetchedFrom' = hFetchedFrom \o [i \in 1..Len(found) |-> search_page]
             /\ search_page' = search_page + 1
             /\ UNCHANGED search_done
  /\ UNCHANGED <<mainVars, llmVars, cleanVars, search_pages, search_rows, search_first>>

\* the loop is over after the last page: return cases_all
ScrapeReturn ==
  /\ ~search_done
  /\ search_page > Len(search_pages)
  /\ search_done' = TRUE
  /\ UNCHANGED <<mainVars, llmVars, cleanVars, search_pages, search_rows,
                 search_first, search_page, cases_all, hFetchedFrom>>

NextScrape == ScrapePage \/ ScrapeReturn


InitArchive ==
  /\ day = 1
  /\ files = [d \in Days |-> NoFile]
  /\ mtimeOrder = <<>>
  /\ runs = 0
  /\ pc = "idle"
  /\ mode = "none"
  /\ cases = <<>>
  /\ calls = <<>>
  /\ llm_results = <<>>
  /\ wb = <<>>
  /\ save_path = 0
  /\ latest_excel = 0
  /\ existing_cases = {}
  /\ source_ws = <<>>
  /\ next_case = 1
  /\ new_case_count = 0
  /\ ret = PyNone
  /\ hPrevLatest = <<>>
  /\ hWriter = [d \in Days |-> 0]
  /\ hProducer = [d \in Days |-> NoProducer]
  /\ hCheckpointed = FALSE
  /\ hSaveFailed = FALSE
  /\ hCrash = NoCrash
  /\ hRerun = NoCrash

Init ==
  /\ InitArchive
  /\ InitLLM
  /\ InitClean
  /\ InitScrape

\* the run-local variables as main() finds them when it starts
ResetRun ==
  /\ calls' = <<>>
  /\ llm_results' = <<>>
  /\ wb' = <<>>
  /\ save_path' = 0
  /\ latest_excel' = 0
  /\ existing_cases' = {}
  /\ source_ws' = <<>>
  /\ next_case' = 1
  /\ new_case_count' = 0
  /\ ret' = PyNone
  /\ hPrevLatest' = <<>>
  /\ hCheckpointed' = FALSE
  /\ hSaveFailed' = FALSE

\* main(): the cases are there; without cases nothing else is done
Begin(m, cs) ==
  /\ Idle
  /\ runs < MaxRuns
  /\ runs' = runs + 1
  /\ mode' = m
  /\ cases' = cs
  /\ pc' = IF cs = <<>> THEN "done" ELSE "llm"
  /\ hRerun' = IF hCrash.valid /\ hCrash.cases = cs /\ cs # <<>> THEN hCrash ELSE NoCrash
  /\ hCrash' = NoCrash
  /\ ResetRun
  /\ UNCHANGED <<llmVars, cleanVars, scrapeVars, day, diskVars>>

\* the calendar date changes between two runs
NextDay ==
  /\ Idle
  /\ day < MaxDay
  /\ day' = day + 1
  /\ UNCHANGED <<llmVars, cleanVars, scrapeVars, diskVars, runs, pc, mode, cases, calls, llm_results, mergeVars,
                 ret, hCrash, hRerun>>

\* main --all / --scrape: scrape_cases() against the most recent file
StartScrape ==
  \E m \in {"all", "scrape"}, site \in Sites :
    LET latest == find_latest_excel_file(mtimeOrder, 0)
        existing == scraper_load_existing_cases(RowsOf(files, latest))
    IN Begin(m, scrape_all(site, existing))

\* main --process --excel: the cases of a file of the archive folder
StartProcessArchive ==
  \E d \in Days :
    /\ files[d].exists
    /\ Begin("process", load_cases_from_excel(files[d].rows))

\* main --process --excel: the cases of a file outside the archive folder
StartProcessExternal ==
  Begin("process", ExternalCases)

\* main.process_cases: every case of the run is sent to the backends
ProcessCases ==
  /\ pc = "llm"
  /\ llm_results' = process_cases(cases)
  /\ calls' = BackendCalls(cases)
  /\ pc' = "save"
  /\ UNCHANGED <<llmVars, cleanVars, scrapeVars, day, diskVars, runs, mode, cases, mergeVars, ret, hCrash, hRerun>>

\* ------------------------------------------------------------- the merge
\* a skip test that compares the unique name as it is, blanks included
IsExisting_NoStrip(case, existing) == case.unique_title \in existing

\* the skip test of the loop over the new cases
IsExisting(case, existing) == Strip(case.unique_title) \in existing

\* "Save periodically": new_case_count % 5 == 0
IsCheckpoint(n) == n % CheckpointEvery = 0

\* an append that starts at the first data row instead of after the last
\* row written (start_row = 2)
AppendExisting_FromTop(new_rows, src_rows) ==
  LET copied == CopyRows(src_rows)
  IN [r \in 1..(IF Len(copied) > Len(new_rows) THEN Len(copied) ELSE Len(new_rows)) |->
        IF r <= Len(copied) THEN copied[r] ELSE new_rows[r]]

\* the rows of the previous file as they are appended after the new rows
AppendExisting(new_rows, src_rows) == new_rows \o CopyRows(src_rows)

\* the column widths of the finished workbook: those of the previous file
FinalWidths(fs, latest) == IF latest = 0 THEN "default" ELSE fs[latest].widths

\* wb.save(save_path)
Save(fs, d, rows, widths) == [fs EXCEPT ![d] = File(rows, widths)]

\* the file create_excel_with_headers writes: the header row and nothing else,
\* under the name of the current date
CreatePath(d) == d

\* process_and_save_cases up to the loop: the new file is created (and
\* saved), the previous file is looked up, its names and its rows are loaded.
\* A failing save of the new file raises, and nothing catches it.
MergeStart ==
  /\ pc = "save"
  /\ \E ok \in BOOLEAN :
       IF ok
       THEN LET path == CreatePath(day)
                order == Touch(mtimeOrder, path)
                latest == find_latest_excel_file(order, path)
            IN /\ hPrevLatest' = RowsOf(files, find_latest_excel_file(mtimeOrder, 0))
               /\ files' = Save(files, path, <<>>, "default")
               /\ mtimeOrder' = order
               /\ hWriter' = [hWriter EXCEPT ![path] = runs]
               /\ hProducer' = [hProducer EXCEPT ![path] = NoProducer]
               /\ save_path' = path
               /\ latest_excel' = latest
               /\ existing_cases' = load_existing_cases(RowsOf(files, latest))
               /\ source_ws' = RowsOf(files, latest)
               /\ wb' = <<>>
               /\ next_case' = 1
               /\ new_case_count' = 0
               /\ pc' = "merge"
               /\ UNCHANGED <<hCheckpointed, hSaveFailed>>
       ELSE /\ pc' = "crashed"
            /\ UNCHANGED <<diskVars, mergeVars>>
  /\ UNCHANGED <<llmVars, cleanVars, scrapeVars, day, runs, mode, cases, calls, llm_results, ret, hCrash, hRerun>>

\* one iteration of the loop over the new cases: skip a case that exists,
\* else count it, write its row and save at every fifth new case; a failing
\* checkpoint save is logged and the loop goes on
MergeCase ==
  /\ pc = "merge"
  /\ next_case <= Len(cases)
  /\ next_case' = next_case + 1
  /\ LET case == cases[next_case]
         rows == Append(wb, NewRow(case, ResultFor(llm_results, case)))
     IN IF IsExisting(case, existing_cases)
        THEN UNCHANGED <<wb, new_case_count, diskVars, hCheckpointed, hSaveFailed>>
        ELSE /\ new_case_count' = new_case_count + 1
             /\ wb' = rows
             /\ IF IsCheckpoint(new_case_count + 1)
                THEN \E ok \in BOOLEAN :
                       IF ok
                       THEN /\ files' = Save(files, save_path, rows, "default")
                            /\ mtimeOrder' = Touch(mtimeOrder, save_path)
                            /\ hCheckpointed' = TRUE
                            /\ UNCHANGED <<hWriter, hProducer, hSaveFailed>>
                       ELSE /\ hSaveFailed' = TRUE
                            /\ UNCHANGED <<diskVars, hCheckpointed>>
                ELSE UNCHANGED <<diskVars, hCheckpointed, hSaveFailed>>
  /\ UNCHANGED <<llmVars, cleanVars, scrapeVars, day, runs, pc, mode, cases, calls, llm_results, save_path,
                 latest_excel, existing_cases, source_ws, ret, hPrevLatest,
                 hCrash, hRerun>>

\* process_and_save_cases after the loop: the rows of the previous file are
\* appended, the widths applied and the file saved; a failing save returns ""
MergeFinish ==
  /\ pc = "merge"
  /\ next_case > Len(cases)
  /\ LET rows == AppendExisting(wb, source_ws)
     IN /\ wb' = rows
        /\ \E ok \in BOOLEAN :
             IF ok
             THEN /\ files' = Save(files, save_path, rows, FinalWidths(files, latest_excel))
                  /\ mtimeOrder' = Touch(mtimeOrder, save_path)
                  /\ hProducer' = [hProducer EXCEPT
                                     ![save_path] = [complete |-> TRUE, cases |-> cases]]
                  /\ ret' = "path"
                  /\ UNCHANGED <<hWriter, hSaveFailed>>
             ELSE /\ ret' = ""
                  /\ hSaveFailed' = TRUE
                  /\ UNCHANGED diskVars
  /\ pc' = "done"
  /\ UNCHANGED <<llmVars, cleanVars, scrapeVars, day, runs, mode, cases, calls, llm_results, save_path,
                 latest_excel, existing_cases, source_ws, next_case,
                 new_case_count, hPrevLatest, hCheckpointed, hCrash, hRerun>>

\* the process dies (killed, power loss, uncaught error) during a run: what
\* is in memory is lost, the files stay as they are
Crash ==
  /\ pc \in {"llm", "save", "merge"}
  /\ pc' = "crashed"
  /\ hCrash' = IF pc = "merge" /\ hCheckpointed
               THEN [valid |-> TRUE, cases |-> cases, prior |-> source_ws]
               ELSE NoCrash
  /\ mode' = "none"
  /\ cases' = <<>>
  /\ ResetRun
  /\ UNCHANGED <<llmVars, cleanVars, scrapeVars, day, diskVars, runs, hRerun>>

Next ==
  \/ NextDay
  \/ StartScrape
  \/ StartProcessArchive
  \/ StartProcessExternal
  \/ ProcessCases
  \/ MergeStart
  \/ MergeCase
  \/ MergeFinish
  \/ Crash

Spec == Init /\ [][Next]_vars

\* process_case alone, called for one case after another
SpecLLM == Init /\ [][NextLLM]_vars

\* process_case where a backend call that was started returns and the retry
\* loop takes its next step
SpecLLMFair == SpecLLM /\ WF_vars(GeminiCall) /\ WF_vars(OpenAICall)

\* clean_evidence_line alone, on every line of the input set
InitOfClean ==
  /\ InitArchive
  /\ InitLLM
  /\ InitLine
  /\ InitScrape

SpecClean == InitOfClean /\ [][NextClean]_vars

\* scrape_search alone, on every search of the input set
InitOfScrape ==
  /\ InitArchive
  /\ InitLLM
  /\ InitClean
  /\ InitSearch

SpecScrape == InitOfScrape /\ [][NextScrape]_vars

\* ----------------------------------------------------------- the claims
\* the trimmed unique name of a row and of the rows of a file
RowKey(row) == Strip(row[2].value)
RowKeys(rows) == {RowKey(rows[r]) : r \in 1..Len(rows)}
KeysDistinct(rows) ==
  \A r1, r2 \in 1..Len(rows) : RowKey(rows[r1]) = RowKey(rows[r2]) => r1 = r2

\* a run has returned the path of the file it wrote
Returned == pc = "done" /\ ret = "path"

\* the file the finished run wrote, and the previous file it merged
Snapshot == RowsOf(files, save_path)
Prior == RowsOf(files, latest_excel)

\* the new cases that pass the dedup test against a set of keys, in input order
Survivors(cs, keys) ==
  SelectSeq(cs, LAMBDA c : Strip(c.unique_title) \notin keys)

\* C1: after a merge of non-empty new cases into a non-empty previous
\* snapshot, the rows are one row per new case that passed the dedup test, in
\* input order, followed by exactly the rows of the previous snapshot, in
\* their order and unchanged.
C1_NewThenPriorUnchanged ==
  (Returned /\ cases # <<>> /\ Prior # <<>>) =>
    LET surv == Survivors(cases, RowKeys(Prior))
        n == Len(surv)
    IN /\ Len(Snapshot) = n + Len(Prior)
       /\ \A k \in 1..n : Snapshot[k][2].value = surv[k].unique_title
       /\ \A j \in 1..Len(Prior) : Snapshot[n + j] = Prior[j]

\* C2: a new case whose trimmed unique name is a key of the previous snapshot
\* is skipped: the counter of new cases counts only the other cases, and no
\* row of the new-record section carries such a key.
C2_ExistingSkipped ==
  (pc \in {"merge", "done"}) =>
    LET seen == SubSeq(cases, 1, next_case - 1)
    IN /\ new_case_count = Len(Survivors(seen, RowKeys(Prior)))
       /\ \A k \in 1..new_case_count : RowKey(wb[k]) \notin RowKeys(Prior)
       /\ Returned =>
            \A k \in 1..Len(Snapshot) :
              RowKey(Snapshot[k]) \in RowKeys(Prior) => k > new_case_count

C2_Witness ==
  /\ Returned
  /\ new_case_count > 0
  /\ \E k \in 1..Len(cases) : Strip(cases[k].unique_title) \in RowKeys(Prior)

\* C3: every record of the latest snapshot that existed before a run is in
\* the snapshot the run returns: the unique names of the latest snapshot
\* never get fewer.
C3_KeysNeverShrink ==
  Returned => RowKeys(hPrevLatest) \subseteq RowKeys(Snapshot)

\* C4: a second merge of the same new cases, whose previous snapshot is the
\* one the first merge produced, adds no new record: its snapshot holds the
\* records of the first one, carried forward in order, and nothing else.
C4_Idempotent ==
  (/\ Returned
   /\ latest_excel # 0
   /\ hProducer[latest_excel].complete
   /\ hProducer[latest_excel].cases = cases) =>
    /\ new_case_count = 0
    /\ Len(Snapshot) = Len(Prior)
    /\ \A j \in 1..Len(Prior) : Snapshot[j][2].value = Prior[j][2].value

C4_Witness ==
  /\ Returned
  /\ latest_excel # 0
  /\ hProducer[latest_excel].complete
  /\ hProducer[latest_excel].cases = cases
  /\ Len(Snapshot) >= CheckpointEvery

\* C5: when a run died after a checkpoint and the pipeline is run again with
\* the same cases, on whatever date, the snapshot of the second run holds
\* every record of the original previous snapshot and exactly one record
\* for each new case.
C5_RerunAfterCrash ==
  (Returned /\ hRerun.valid) =>
    /\ \A r \in 1..Len(hRerun.prior) :
         \E k \in 1..Len(Snapshot) : Snapshot[k][2].value = hRerun.prior[r][2].value
    /\ \A c \in 1..Len(cases) :
         Cardinality({k \in 1..Len(Snapshot) :
                        Snapshot[k][2].value = cases[c].unique_title}) = 1

\* C6: while the new cases are processed, the file on disk lacks at most 4
\* of the new records written so far in the run.
C6_AtMostFourUnsaved ==
  pc = "merge" => new_case_count - Len(Snapshot) < CheckpointEvery

\* C7: a file written by an earlier run is never changed by a later run.
C7_EarlierFilesUntouched ==
  [][\A d \in Days :
       (files[d].exists /\ hWriter[d] # runs') => files'[d] = files[d]]_vars

\* C8: in every mode, no case whose trimmed unique name is a key of the
\* previous snapshot was sent to a backend.
C8_NoCallForExisting ==
  (pc \in {"merge", "done"} /\ save_path # 0) =>
    \A k \in 1..Len(calls) : Strip(calls[k]) \notin RowKeys(Prior)

\* C9: the snapshot a run returns has no two rows with the same unique
\* name, whenever the previous snapshot had none.
C9_KeysUnique ==
  (Returned /\ KeysDistinct(Prior)) => KeysDistinct(Snapshot)

\* C10: every row of every file has exactly 17 values.
C10_SeventeenValues ==
  \A d \in Days : \A r \in 1..Len(files[d].rows) : Len(files[d].rows[r]) = HeaderLen

\* -------------------------------------------- the claims about process_case
\* request r of the process_case call at hand has returned
Parsed(i) == req > i
GeminiReturned == lpc \in {"parse", "decode"}
OpenAIReturned == lpc = "guard" /\ req = CompareRequest

\* k failed calls, each followed by one sleep
RetryLog(k, call) == [n \in 1..(2 * k) |-> IF n % 2 = 1 THEN call ELSE "sleep"]

\* C11: the field list one extraction yields for one prompt has exactly the
\* expected number of fields: 6 for the first Gemini prompt, 7 for the
\* second, 4 for OpenAI, whatever the response was.
C11_ExactFieldCount ==
  /\ \A i \in GeminiPrompts :
       Parsed(i) => Len(prompt_fields[i]) = ExpectedFields(i)
  /\ Parsed(OpenAIRequest) => Len(llm_gpt_fields) = GptFieldCount

\* C12: a failed Gemini call is followed by one sleep and another call, a
\* successful call is the last one, there are at most 5 calls, and after 5
\* failed calls every field of the prompt is "Error".
C12_GeminiRetry ==
  /\ (GeminiReturned /\ status[req] = "ok") =>
       \E k \in 0..(GeminiMaxRetries - 1) : log = RetryLog(k, "call") \o <<"call">>
  /\ (GeminiReturned /\ status[req] = "exhausted") =>
       log = RetryLog(GeminiMaxRetries, "call")
  /\ \A i \in GeminiPrompts :
       (Parsed(i) /\ status[i] = "exhausted") =>
         prompt_fields[i] = Rep(ExpectedFields(i), "Error")

\* C13: OpenAI is called again only after a rate-limit failure and a sleep,
\* at most 3 times in all; any other failure is the last call and the
\* extraction returns "Error".
C13_OpenAIRetry ==
  /\ lpc = "openai" =>
       /\ attempt < OpenAIMaxRetries
       /\ log = RetryLog(attempt, "call:rate limit")
  /\ OpenAIReturned =>
       \E k \in 0..OpenAIMaxRetries :
         \/ /\ status[OpenAIRequest] = "ok"
            /\ k < OpenAIMaxRetries
            /\ log = RetryLog(k, "call:rate limit") \o <<"call">>
         \/ /\ status[OpenAIRequest] = "fatal"
            /\ k < OpenAIMaxRetries
            /\ log = RetryLog(k, "call:rate limit") \o <<"call:other">>
            /\ output[OpenAIRequest] = OpenAIFatal
         \/ /\ status[OpenAIRequest] = "exhausted"
            /\ k = OpenAIMaxRetries
            /\ log = RetryLog(k, "call:rate limit")
            /\ output[OpenAIRequest] = OpenAIExhausted

C13_Witness ==
  /\ OpenAIReturned
  /\ status[OpenAIRequest] = "fatal"
  /\ log = RetryLog(1, "call:rate limit") \o <<"call:other">>

\* C14: for every backend, a request whose prompt leaves less than the
\* minimum completion budget ends with the budget error, without any
\* backend call and without any sleep.
C14_BudgetGuard ==
  /\ (GeminiReturned /\ status[req] # "raised"
        /\ OverBudget(InputTokens(req, case_details))) =>
       (log = <<>> /\ output[req] = InputTooLarge)
  /\ (OpenAIReturned /\ OverBudget(InputTokens(OpenAIRequest, case_details))) =>
       (log = <<>> /\ status[OpenAIRequest] = "budget")

\* the comparison request ended with a response handed to the decoder
CompareReturned == lpc = "done" /\ status[CompareRequest] \in {"ok", "budget", "exhausted"}

WellFormed(response, n) ==
  literal_eval(response).kind = "bools" /\ Len(literal_eval(response).items) = n

\* C15: compare_llm_output returns a list of booleans as long as its inputs:
\* the decoded response when that is a list of booleans of that length, all
\* TRUE for every other response.
C15_ReconcileLength ==
  CompareReturned =>
    LET n == Len(llm_gpt_fields)
        response == output[CompareRequest]
    IN /\ llm_differences.kind = "bools"
       /\ Len(llm_differences.items) = n
       /\ llm_differences.items =
            IF WellFormed(response, n) THEN literal_eval(response).items
            ELSE Rep(n, TRUE)

\* the comparison of the case failed: no response, or an exception while
\* comparing, or a response that is no Python literal
CompareFailed ==
  \/ status[CompareRequest] \in {"budget", "exhausted", "raised"}
  \/ /\ status[CompareRequest] = "ok"
     /\ literal_eval(output[CompareRequest]).kind = "raise"

\* C16: when the comparison of a case fails, every compared field of the
\* case is reported as differing.
C16_FailureIsMismatch ==
  (lpc = "done" /\ CompareFailed) =>
    llm_differences = [kind |-> "bools", items |-> Rep(GptFieldCount, TRUE)]

\* both markers occur, but no evidence marker follows the answers marker
ParseFails(response) ==
  LET a == Find(response, <<AnswersMarker>>)
  IN /\ a # 0
     /\ Find(response, <<EvidenceMarker>>) # 0
     /\ Find(SubSeq(response, a + 1, Len(response)), <<EvidenceMarker>>) = 0

\* C17: when parsing a response fails inside, the prompt gets its expected
\* number of fields, all "Error", and the one evidence entry
\* "Error processing output".
C17_ParseFailure ==
  \A i \in GeminiPrompts :
    (Parsed(i) /\ status[i] = "ok" /\ ParseFails(output[i])) =>
      /\ prompt_fields[i] = Rep(ExpectedFields(i), "Error")
      /\ prompt_evidence[i] = << <<"Error processing output">> >>

\* the text strictly between the first answers marker and the evidence
\* marker that follows it, and the text strictly after that marker
MarkerSegments(response) ==
  LET a == Find(response, <<AnswersMarker>>)
      rest == SubSeq(response, a + 1, Len(response))
      e == Find(rest, <<EvidenceMarker>>)
  IN [answers |-> SubSeq(rest, 1, e - 1),
      evidence |-> SubSeq(rest, e + 1, Len(rest))]

MarkersInOrder(response) ==
  LET a == Find(response, <<AnswersMarker>>)
  IN /\ a # 0
     /\ Find(SubSeq(response, a + 1, Len(response)), <<EvidenceMarker>>) # 0

MarkersAbsent(response) ==
  /\ Find(response, <<AnswersMarker>>) = 0
  /\ Find(response, <<EvidenceMarker>>) = 0

\* the parts before and after the first blank line; without a blank line
\* the whole response and the fixed evidence text
BlankLineSegments(response) ==
  LET b == Find(response, <<NL, NL>>)
  IN IF b = 0
     THEN [answers |-> response, evidence |-> <<"No supporting text returned.">>]
     ELSE [answers |-> SubSeq(response, 1, b - 1),
           evidence |-> SubSeq(response, b + 2, Len(response))]

\* the segments the claim names for a response
ReferenceSegments(response) ==
  IF MarkersInOrder(response) THEN MarkerSegments(response)
  ELSE BlankLineSegments(response)

InReference(response) == MarkersInOrder(response) \/ MarkersAbsent(response)

\* C18 as stated: the fields of a prompt are the text strictly between the
\* markers split on tabs, its evidence is the text strictly after the second
\* marker; without markers the two parts around the first blank line, the
\* evidence being the fixed text when there is no second part.
C18_MarkerParsing ==
  \A i \in GeminiPrompts :
    (Parsed(i) /\ status[i] = "ok" /\ InReference(output[i])) =>
      LET seg == ReferenceSegments(output[i])
      IN /\ prompt_fields[i] = SplitFields(seg.answers)
         /\ prompt_evidence[i] = EvidenceLines(seg.evidence)

\* C18 amended: the same segments, each with the white space at its two
\* ends removed before the answer segment is split on tabs.
C18_MarkerParsingTrimmed ==
  \A i \in GeminiPrompts :
    (Parsed(i) /\ status[i] = "ok" /\ InReference(output[i])) =>
      LET seg == ReferenceSegments(output[i])
      IN /\ prompt_fields[i] = SplitFields(Strip(seg.answers))
         /\ prompt_evidence[i] = EvidenceLines(Strip(seg.evidence))

C18_Witness ==
  /\ Parsed(2)
  /\ status[1] = "ok" /\ status[2] = "ok"
  /\ MarkersInOrder(output[1])
  /\ Strip(MarkerSegments(output[1]).answers) # MarkerSegments(output[1]).answers
  /\ MarkersAbsent(output[2])
  /\ Find(output[2], <<NL, NL>>) # 0

\* ------------------------------------------ the claims about the new rows
\* the case that row k of the new-record section was written for
NewCase(k) ==
  SelectSeq(SubSeq(cases, 1, next_case - 1),
            LAMBDA c : ~IsExisting(c, existing_cases))[k]

NewRowsWritten == IF pc \in {"merge", "done"} THEN 1..new_case_count ELSE {}

\* the column of the sheet that carries a name
ColumnOf(name) == CHOOSE c \in 1..Len(csv_header) : csv_header[c] = name

\* the slots of a verdict marked as differing
Differing(res) == {k \in 1..Len(res.differences) : res.differences[k]}

\* In every new row, the cell of column cols[k] is filled and carries the
\* note with both values of slot k exactly when slot k differs; no other
\* cell of the row is filled or carries a note.
MismatchCells(cols) ==
  \A r \in NewRowsWritten :
    LET res == ResultFor(llm_results, NewCase(r))
    IN /\ \A k \in 1..Len(cols) :
            IF k \in Differing(res)
            THEN /\ wb[r][cols[k]].fill
                 /\ wb[r][cols[k]].comment =
                      <<"Mismatch", res.gpt_fields[k], res.gemini_fields[k]>>
            ELSE /\ ~wb[r][cols[k]].fill
                 /\ wb[r][cols[k]].comment = NoComment
       /\ \A c \in 1..Len(wb[r]) :
            (\A k \in 1..Len(cols) : cols[k] # c) =>
              /\ ~wb[r][c].fill
              /\ wb[r][c].comment = NoComment

\* C19 as stated: the four slots are shown in the average ratio, final
\* ratio, adjustments and adjustment reason columns of a new record, the
\* cell of a differing slot highlighted and annotated with both values, every
\* other cell with neither highlight nor note.
C19_MismatchCells ==
  MismatchCells(<<ColumnOf("Average Ratio (Wife)"), ColumnOf("Final Ratio"),
                  ColumnOf("Adjustments"), ColumnOf("Adjustment Reason")>>)

\* C19 amended: the four slots are shown in columns 10, 13, 14 and 15, which
\* are the income type, average ratio, final ratio and adjustments columns.
C19_MismatchCellsIncomeType ==
  /\ <<ColumnOf("Single or dual income marriage"), ColumnOf("Average Ratio (Wife)"),
       ColumnOf("Final Ratio"), ColumnOf("Adjustments")>> = <<10, 13, 14, 15>>
  /\ MismatchCells(<<10, 13, 14, 15>>)

C19_Witness ==
  \E r \in NewRowsWritten :
    LET d == Differing(ResultFor(llm_results, NewCase(r)))
    IN /\ 1 \in d /\ 3 \in d /\ 2 \notin d
       /\ wb[r][10].fill

\* evidence strings that the claim excludes from locators
Sentinels == {<<NA>>, <<"Error">>}
NoLocatorEvidence == Sentinels \cup {<<"Undisclosed">>, <<"Not Discussed">>}

\* a source URL that names a page
ValidUrl(url) == url \notin {PyNone, ""}

\* C20: an answer cell of a new record carries an evidence locator only if
\* an evidence string exists at its position, the string is neither a
\* sentinel nor "Undisclosed" nor "Not Discussed", and the case has a valid
\* source URL; the locator is the URL followed by the text-anchor fragment
\* built from the evidence string.
C20_LocatorOnlyWithEvidenceAndUrl ==
  \A r \in NewRowsWritten :
    \A c \in 1..Len(wb[r]) :
      wb[r][c].hyperlink # NoLink =>
        LET case == NewCase(r)
            all_evidence == ResultFor(llm_results, case).all_evidence
            i == c - NumIdentityCols
        IN /\ i \in 1..Len(all_evidence)
           /\ all_evidence[i] \notin NoLocatorEvidence
           /\ ValidUrl(case.url)
           /\ wb[r][c].hyperlink =
                <<case.url, "#:~:text=">> \o clean_and_encode_text(all_evidence[i])

\* ------------------------------------ the claims about carried-forward rows
\* the row of the returned file that carries row j of the previous file
CarriedRow(j) == new_case_count + j

\* C21: every cell of a carried-forward record has, in the returned file, the
\* value, the hyperlink, the comment and the fill of the corresponding cell of
\* the previous file, for every column of the previous record.
C21_CarriedCellsKept ==
  Returned =>
    \A j \in 1..Len(source_ws) :
      /\ CarriedRow(j) <= Len(Snapshot)
      /\ \A c \in 1..Len(source_ws[j]) :
           /\ c <= Len(Snapshot[CarriedRow(j)])
           /\ Snapshot[CarriedRow(j)][c] = source_ws[j][c]

\* ------------------------------------------- the claims about failing cases
\* the extraction of prompt idx fails for a case at every attempt
ExtractionFails(idx, case) == RawGemini(idx, case.details) = GeminiExhausted

\* the columns of the sheet that carry the answers of prompt idx
PromptColumns(idx) ==
  IF idx = 1
  THEN (NumIdentityCols + 1)..(NumIdentityCols + Prompt1Fields)
  ELSE (NumIdentityCols + Prompt1Fields + 1)..HeaderLen

SentinelValues == {NA, "Error"}

\* C22: a failing extraction does not end the run: every case of the run has
\* been sent to the backends and has a result, and the new record of a case
\* whose extraction failed has the 17 values of the schema, the answers of
\* the failed prompt being sentinel values.
C22_FailureAbsorbed ==
  (pc \in {"merge", "done"} /\ mode # "scrape") =>
    /\ \A k \in 1..Len(cases) : cases[k].unique_title \in DOMAIN llm_results
    /\ \A r \in NewRowsWritten :
         \A idx \in GeminiPrompts :
           ExtractionFails(idx, NewCase(r)) =>
             /\ Len(wb[r]) = HeaderLen
             /\ \A c \in PromptColumns(idx) : wb[r][c].value \in SentinelValues

\* ---------------------------------------------- the claims about the saves
\* save_to_excel reported the run to main() as failed
ReportedFailed == pc = "done" /\ ret = ""

\* C23: a run in which a save of the snapshot failed, a checkpoint save or
\* the final save, is reported to the caller as failed and never as having
\* produced a snapshot; a run without such a failure is not reported as
\* failed.
C23_SaveFailureEscalated ==
  /\ (pc = "done" /\ hSaveFailed) => ReportedFailed
  /\ ReportedFailed => hSaveFailed

\* ------------------------------------ the claims about clean_evidence_line
\* C24: cleaning a cleaned evidence line returns the same line:
\* clean_evidence_line(clean_evidence_line(s)) = clean_evidence_line(s).
C24_CleanIdempotent ==
  Len(cleaned) = 2 => cleaned[2] = cleaned[1]

\* ---------------------------------------- the claims about written records
\* C25: a record written into the workbook of a run is not changed by any
\* later step of that run: the step for another case, with its hyperlinks and
\* its mismatch marks, and the append of the carried-forward records leave
\* value, hyperlink, fill and comment of every cell of it as they are.
C25_WrittenRecordKept ==
  [][(pc = "merge" /\ pc' \in {"merge", "done"}) =>
       \A r \in 1..Len(wb) : r <= Len(wb') /\ wb'[r] = wb[r]]_vars

C25_Witness ==
  /\ pc = "done"
  /\ new_case_count >= 2
  /\ source_ws # <<>>
  /\ Len(wb) = new_case_count + Len(source_ws)
  /\ \E c \in 1..Len(wb[1]) : wb[1][c].fill
  /\ \E c \in 1..Len(wb[2]) : wb[2][c].hyperlink # NoLink

\* ------------------------------------------- the claims about termination
\* the backend calls of the request at hand
Calls == Cardinality({i \in DOMAIN log : log[i] # "sleep"})

CallsBounded ==
  /\ (lpc = "call" \/ GeminiReturned) => Calls <= 5
  /\ (lpc = "openai" \/ OpenAIReturned) => Calls <= 3
  /\ lpc = "call" => Calls < 5
  /\ lpc = "openai" => Calls < 3

\* C26: an extraction calls Gemini at most 5 times and OpenAI at most 3
\* times, whatever the calls do, and every extraction that entered its retry
\* loop leaves it with a result.
C26_ExtractionTerminates ==
  /\ []CallsBounded
  /\ (lpc = "call") ~> (lpc # "call")
  /\ (lpc = "openai") ~> (lpc # "openai")

C26_Witness ==
  /\ OpenAIReturned
  /\ status[1] = "exhausted"
  /\ status[OpenAIRequest] = "exhausted"
  /\ Calls = 3

\* --------------------------------- the claims about the combined field list
\* the new rows whose case has a result of process_case
NewRowsWithResult ==
  {r \in NewRowsWritten : NewCase(r).unique_title \in DOMAIN llm_results}

\* the place of a comparison slot in the combined field list, counted from 0
ComparedIndex(k) == <<5, 8, 9, 10>>[k]

\* the column that stores element i of the combined field list
StoredColumn(i) == i + 5

\* C27: for each comparison slot the Gemini value compared is the element
\* 5, 8, 9 or 10 of the combined field list, in the lower-case form the
\* comparison uses, the GPT value is field k of the GPT answer, and the cell
\* marked for a differing slot is the cell that stores that element of the
\* combined list, element i being stored in column i + 5.
C27_ComparisonWiring ==
  \A r \in NewRowsWithResult :
    LET case == NewCase(r)
        res == llm_results[case.unique_title]
    IN \A k \in 1..GptFieldCount :
         LET i == ComparedIndex(k)
             cell == wb[r][StoredColumn(i)]
         IN /\ cell.value = res.all_fields[i + 1]
            /\ res.gemini_fields[k] = Lower(cell.value)
            /\ res.gpt_fields[k] = GptFields(GptOutput(case.details))[k]
            /\ (k <= Len(res.differences) /\ res.differences[k]) =>
                 /\ cell.fill
                 /\ cell.comment = <<"Mismatch", res.gpt_fields[k], res.gemini_fields[k]>>

C27_Witness ==
  \E r \in NewRowsWithResult :
    LET res == llm_results[NewCase(r).unique_title]
    IN /\ res.differences = <<TRUE, FALSE, TRUE, FALSE>>
       /\ \A k \in {1, 3} : res.gemini_fields[k] \notin {"na", res.gpt_fields[k]}
       /\ wb[r][StoredColumn(ComparedIndex(3))].fill
       /\ ~wb[r][StoredColumn(ComparedIndex(2))].fill

\* C28: in every new record the answers of the second Gemini prompt are the
\* elements 6..12 of the combined field list, stored in the columns Direct
\* Contribution to Custody Type, whatever the number of fields of the first
\* prompt was.
C28_SecondPromptPlace ==
  \A r \in NewRowsWithResult :
    LET second == GeminiParsed(2, NewCase(r).details).answers
    IN \A j \in 1..Min(Len(second), Prompt2Fields) :
         /\ csv_header[StoredColumn(Prompt1Fields)] = "Direct Contribution (Wife)"
         /\ wb[r][StoredColumn(Prompt1Fields + j - 1)].value = second[j]

\* the evidence line at place i of the combined evidence list was returned
\* by the first Gemini prompt (the lists of the two prompts are joined)
FromFirstPrompt(case, i) == i <= Len(GeminiParsed(1, case.details).evidence)

\* C29: the hyperlink of an answer cell of a new record is built from an
\* evidence line of the prompt that gave the answer of that column: the
\* first prompt for the first six answer columns, the second prompt for the
\* other seven.
C29_LocatorFromSamePrompt ==
  \A r \in NewRowsWithResult :
    \A c \in (NumIdentityCols + 1)..Len(wb[r]) :
      wb[r][c].hyperlink # NoLink =>
        (c - NumIdentityCols <= Prompt1Fields
           <=> FromFirstPrompt(NewCase(r), c - NumIdentityCols))

\* --------------------------------------------- the claims about the search
\* an entry at which the search is to end: dated 2015 or earlier, or with a
\* key of the latest file
StopEntry(e) ==
  \/ IsOldDate(e.date)
  \/ Strip(UniqueTitle(e.title, e.citation)) \in RowKeys(search_rows)

\* the pages that show such an entry
StopPages ==
  {p \in 1..Len(search_pages) :
     \E i \in 1..Len(search_pages[p]) : StopEntry(search_pages[p][i])}

\* C30: once a page has shown a case of the latest file or a case dated 2015
\* or earlier, no case of a later page is fetched or returned, and no case
\* returned has a key of the latest file.
C30_SearchStops ==
  /\ \A i \in 1..Len(cases_all) : \A p \in StopPages : hFetchedFrom[i] <= p
  /\ \A i \in 1..Len(cases_all) :
       Strip(cases_all[i].unique_title) \notin RowKeys(search_rows)

====
